---- MODULE Spec2Model ----
(***************************************************************************)
(* Model of the Pfam hit consolidation scripts of nf-bakta:                *)
(*   bin/hmmsearch.py             compute_overlap, main                    *)
(*   bin/parse_hmmsearch_output.py read_hmmer                              *)
(*                                                                         *)
(* Numbers.  e-values, domain coverages and overlap fractions are floats   *)
(* in the scripts.  Only comparisons of them are ever taken, so e-values   *)
(* and coverages are modelled by integers ordered the same way, and a      *)
(* quotient n/d is modelled by the pair <<n, d>> and compared by cross     *)
(* multiplication.                                                         *)
(*                                                                         *)
(* Tables.  A polars DataFrame whose row order the script relies on (hits, *)
(* final_df) is a sequence of records; drop_candidates, whose order        *)
(* DataFrame.unique() leaves unspecified and which nothing reads in order, *)
(* is a bag of records.  Columns no step reads (pfam_len, aln_len, score,  *)
(* aa_cov) are left out of the records.                                    *)
(***************************************************************************)
EXTENDS Integers, Sequences, FiniteSets, Bags, TLC

VARIABLES
    pc,               \* position of the running script
    args,             \* parsed command line of hmmsearch.py
    hits,             \* hmmsearch.py main: the hits DataFrame
    groups,           \* feature groups still to be visited by the loop
    dicts,            \* the row dicts made by to_dicts(), by row_index
    drop,             \* the list `drop`: references (row_index) to row dicts
    drop_candidates,  \* DataFrame(drop).unique()
    drop_rows,        \* its distinct row_index values
    final_df,         \* the final table
    stats,            \* the stats mapping
    files,            \* output files written so far, by name
    exc,              \* the exception that ended the script, or "none"
    marks,            \* history: every marking of the loop, [loser, by]
    runs,             \* overlap resolutions started on the table
    prev_final,       \* rows kept by the previous overlap resolution
    ov,               \* compute_overlap call: arguments and result
    rd,               \* read_hmmer call: arguments, locals and result
    cn                \* canonicalisation of one identifier: row and final row

vars == <<pc, args, hits, groups, dicts, drop, drop_candidates, drop_rows,
          final_df, stats, files, exc, marks, runs, prev_final, ov, rd, cn>>

mainVars == <<args, hits, groups, dicts, drop, drop_candidates, drop_rows,
              final_df, stats, files, marks, runs, prev_final>>

(***************************************************************************)
(* Bounds of the model.                                                    *)
(***************************************************************************)
MaxRows == 3      \* rows returned by run_hmmsearch
MaxPos == 4       \* largest coordinate handed to compute_overlap directly
MaxLines == 2     \* lines of a report read by read_hmmer
MaxTok == 24      \* most tokens on a line of a report
MaxIdLen == 4     \* longest profile identifier canonicalised on its own

Min(a, b) == IF a < b THEN a ELSE b
Max(a, b) == IF a > b THEN a ELSE b

(***************************************************************************)
(* Quotients.                                                              *)
(***************************************************************************)
Zero == <<0, 1>>
FracGT(a, b) == a[1] * b[2] > b[1] * a[2]
FracEQ(a, b) == a[1] * b[2] = b[1] * a[2]

(***************************************************************************)
(* compute_overlap(segment1, segment2), hmmsearch.py 94-128.               *)
(* The result is [raised, value]: raised names the exception that left the *)
(* function ("none" when it returned), value is the returned quotient.     *)
(***************************************************************************)
Returned(v) == [raised |-> "none", value |-> v]
Raised(e) == [raised |-> e, value |-> Zero]

compute_overlap_ge(segment1, segment2) ==
    LET start1 == segment1[1]
        end1 == segment1[2]
        start2 == segment2[1]
        end2 == segment2[2]
        overlap_start == Max(start1, start2)
        overlap_end == Min(end1, end2)
        length_shorter_segment == Min(end1 - start1, end2 - start2)
    IN  IF overlap_end >= overlap_start
        THEN IF length_shorter_segment = 0
             THEN Raised("ZeroDivisionError")
             ELSE Returned(<<overlap_end - overlap_start, length_shorter_segment>>)
        ELSE Returned(Zero)

compute_overlap_longer(segment1, segment2) ==
    LET start1 == segment1[1]
        end1 == segment1[2]
        start2 == segment2[1]
        end2 == segment2[2]
        overlap_start == Max(start1, start2)
        overlap_end == Min(end1, end2)
        length_longer_segment == Max(end1 - start1, end2 - start2)
    IN  IF overlap_end > overlap_start
        THEN IF length_longer_segment = 0
             THEN Raised("ZeroDivisionError")
             ELSE Returned(<<overlap_end - overlap_start, length_longer_segment>>)
        ELSE Returned(Zero)

compute_overlap(segment1, segment2) ==
    LET start1 == segment1[1]
        end1 == segment1[2]
        start2 == segment2[1]
        end2 == segment2[2]
        overlap_start == Max(start1, start2)
        overlap_end == Min(end1, end2)
        length_shorter_segment == Min(end1 - start1, end2 - start2)
    IN  IF overlap_end > overlap_start
        THEN \* overlap_length / length_shorter_segment
             IF length_shorter_segment = 0
             THEN Raised("ZeroDivisionError")
             ELSE Returned(<<overlap_end - overlap_start, length_shorter_segment>>)
        ELSE Returned(Zero)

(***************************************************************************)
(* Inputs of hmmsearch.py main.                                            *)
(*                                                                         *)
(* usage() is command-line glue.  It defines --faa and --genome_id, while  *)
(* main reads args.input and args.output (lines 178-179), so main runs     *)
(* only on a namespace that has the attributes it reads.  main is modelled *)
(* on such a namespace, from the assertions of lines 197-198 on.           *)
(*                                                                         *)
(* run_hmmsearch yields one row per (profile, protein) best domain, so the *)
(* rows of one feature carry distinct pfam_id.  The k-th row of the sorted *)
(* table is given the k-th identifier below.  HMMER alignment coordinates  *)
(* are 1-based with target_from <= target_to.                              *)
(***************************************************************************)
Features == <<"f1", "f2">>
FeatureRank(f) == CHOOSE k \in DOMAIN Features : Features[k] = f

PfamIds ==
    << <<"P", "F", "1", ".", "5">>,
       <<"P", "F", "2", ".", "1">>,
       <<"P", "F", "3", ".", "2">>,
       <<"P", "F", "4", ".", "7">>,
       <<"P", "F", "5", ".", "1">>,
       <<"P", "F", "6", ".", "3">> >>

\* alignment segments of the hits: <<1,3>> and <<2,4>> overlap by a half,
\* <<2,4>> contains <<3,4>>, <<1,3>> and <<3,4>> only touch
Segments == {<<1, 3>>, <<2, 4>>, <<3, 4>>}
EValues == {1, 2}              \* two e-values, 1 the stronger evidence
DomainCovs == {3, 4}           \* domain_cov in tenths; --min_domain_coverage
                               \* is in tenths too (default 0.4)
MinOverlaps == {<<0, 1>>, <<1, 2>>, <<1, 1>>}   \* --min_overlap (default 0.5)
BadMinOverlap == <<3, 2>>

ArgSets ==
    {[min_domain_coverage |-> 4, min_overlap |-> m] : m \in MinOverlaps}
    \cup {[min_domain_coverage |-> 4, min_overlap |-> BadMinOverlap]}
    \cup {[min_domain_coverage |-> 11, min_overlap |-> <<1, 2>>]}

\* a hit of run_hmmsearch, its identifier apart
HitChoices ==
    {[feature_id |-> f, pfam_start |-> sg[1], pfam_end |-> sg[2],
      evalue |-> v, domain_cov |-> c] :
        f \in {Features[i] : i \in DOMAIN Features},
        sg \in Segments, v \in EValues, c \in DomainCovs}

WithPfamIds(t) ==
    [k \in DOMAIN t |->
        [pfam_id |-> PfamIds[k], feature_id |-> t[k].feature_id,
         pfam_start |-> t[k].pfam_start, pfam_end |-> t[k].pfam_end,
         evalue |-> t[k].evalue, domain_cov |-> t[k].domain_cov]]

\* order of DataFrame.sort(["feature_id", "pfam_start"])
SortedBefore(r1, r2) ==
    \/ FeatureRank(r1.feature_id) < FeatureRank(r2.feature_id)
    \/ /\ r1.feature_id = r2.feature_id
       /\ r1.pfam_start <= r2.pfam_start

\* what run_hmmsearch(...) followed by sort(["feature_id", "pfam_start"])
\* can be: the sort is not stable, so rows of equal key come in any order
IsSortedTable(t) ==
    \A k \in DOMAIN t : k > 1 => SortedBefore(t[k - 1], t[k])

(***************************************************************************)
(* Helpers on tables.                                                      *)
(***************************************************************************)
Rows(t) == {t[i] : i \in DOMAIN t}
Column(t, c) == {t[i][c] : i \in DOMAIN t}

\* with_row_index("row_index"): 0-based ordinal of the row
with_row_index(t) ==
    [i \in DOMAIN t |->
        [pfam_id |-> t[i].pfam_id, feature_id |-> t[i].feature_id,
         pfam_start |-> t[i].pfam_start, pfam_end |-> t[i].pfam_end,
         evalue |-> t[i].evalue, domain_cov |-> t[i].domain_cov,
         row_index |-> i - 1]]

\* sort(["feature_id", "row_index"]): keys are unique, so the order is total
RowIndexBefore(r1, r2) ==
    \/ FeatureRank(r1.feature_id) < FeatureRank(r2.feature_id)
    \/ /\ r1.feature_id = r2.feature_id
       /\ r1.row_index < r2.row_index

RECURSIVE InsertRow(_, _)
InsertRow(t, r) ==
    IF t = <<>> THEN <<r>>
    ELSE IF RowIndexBefore(r, Head(t)) THEN <<r>> \o t
         ELSE <<Head(t)>> \o InsertRow(Tail(t), r)

RECURSIVE SortByFeatureRowIndex(_)
SortByFeatureRowIndex(t) ==
    IF t = <<>> THEN <<>>
    ELSE InsertRow(SortByFeatureRowIndex(Tail(t)), Head(t))

\* partition_by("feature_id"): one frame per feature, in order of first
\* appearance, rows in table order
RECURSIVE FeaturesInOrder(_)
FeaturesInOrder(t) ==
    IF t = <<>> THEN <<>>
    ELSE LET f == Head(t).feature_id
             SameF(r) == r.feature_id # f
         IN  <<f>> \o FeaturesInOrder(SelectSeq(Tail(t), SameF))

partition_by_nothing(t) == IF t = <<>> THEN <<>> ELSE <<t>>

partition_by(t) ==
    LET fs == FeaturesInOrder(t)
    IN  [k \in DOMAIN fs |->
            LET InF(r) == r.feature_id = fs[k] IN SelectSeq(t, InF)]

(***************************************************************************)
(* The overlap loop of main, hmmsearch.py 230-247, for one feature group.  *)
(* hit is the list of row dicts of the group; row and row2 are references  *)
(* into it, and drop receives references too: a dict appended twice is the *)
(* same object, and a later row["reason"] = ... is seen through every      *)
(* reference.  A reference is the row_index of the dict.                   *)
(***************************************************************************)
NoReason == <<>>
Reason(pfam_id) == <<"Overlaps: ", pfam_id>>

to_dicts(g) ==
    [i \in DOMAIN g |->
        [pfam_id |-> g[i].pfam_id, feature_id |-> g[i].feature_id,
         pfam_start |-> g[i].pfam_start, pfam_end |-> g[i].pfam_end,
         evalue |-> g[i].evalue, domain_cov |-> g[i].domain_cov,
         row_index |-> g[i].row_index, reason |-> NoReason]]

\* the pairs (i, j) the two enumerate loops reach past `if j <= i: continue`
RECURSIVE PairsFrom(_, _, _)
PairsFrom(i, j, n) ==
    IF i > n THEN <<>>
    ELSE IF j > n THEN PairsFrom(i + 1, i + 2, n)
         ELSE << <<i, j>> >> \o PairsFrom(i, j + 1, n)

AdjacentPairs(n) == [k \in 1..(IF n > 1 THEN n - 1 ELSE 0) |-> <<k, k + 1>>]

ComparedPairs(n) == PairsFrom(1, 2, n)

\* line 240
OverThreshold(overlap, min_overlap) == FracGT(overlap, min_overlap)

\* lines 242-247: which of the pair is appended to drop
LoserHigherOrSecond(row, row2) ==
    IF row.evalue <= row2.evalue THEN "row2" ELSE "row"

LoserLower(row, row2) ==
    IF row.evalue > row2.evalue THEN "row2" ELSE "row"

Loser(row, row2) ==
    IF row.evalue < row2.evalue THEN "row2" ELSE "row"

\* st is [hit, drop, marks, raised]; marks is the history of the markings
RECURSIVE ComparePairs(_, _, _)
ComparePairs(st, pairs, min_overlap) ==
    IF pairs = <<>> THEN st
    ELSE LET i == Head(pairs)[1]
             j == Head(pairs)[2]
             row == st.hit[i]
             row2 == st.hit[j]
             overlap == compute_overlap(<<row.pfam_start, row.pfam_end>>,
                                        <<row2.pfam_start, row2.pfam_end>>)
         IN  IF overlap.raised # "none"
             THEN [st EXCEPT !.raised = overlap.raised]
             ELSE IF OverThreshold(overlap.value, min_overlap)
                  THEN IF Loser(row, row2) = "row2"
                       THEN ComparePairs(
                              [st EXCEPT
                                 !.hit[j].reason = Reason(row.pfam_id),
                                 !.drop = Append(@, row2.row_index),
                                 !.marks = Append(@, [loser |-> row2.row_index,
                                                      by |-> row.row_index])],
                              Tail(pairs), min_overlap)
                       ELSE ComparePairs(
                              [st EXCEPT
                                 !.hit[i].reason = Reason(row2.pfam_id),
                                 !.drop = Append(@, row.row_index),
                                 !.marks = Append(@, [loser |-> row.row_index,
                                                      by |-> row2.row_index])],
                              Tail(pairs), min_overlap)
                  ELSE ComparePairs(st, Tail(pairs), min_overlap)

(***************************************************************************)
(* pl.DataFrame(drop).unique() and the final table, hmmsearch.py 249-265.  *)
(***************************************************************************)
\* pl.DataFrame(drop): one record per list element, read through the
\* reference when the frame is built
DataFrameOfDrop(dropList, ds) ==
    LET Occurrences(r) == Cardinality({k \in DOMAIN dropList : ds[dropList[k]] = r})
        recs == {ds[dropList[k]] : k \in DOMAIN dropList}
    IN  [r \in recs |-> Occurrences(r)]

KeepDuplicates(df) == df

\* DataFrame.unique(): one copy of every distinct record
Unique(df) == SetToBag(BagToSet(df))

Height(df) == BagCardinality(df)
BagColumn(df, c) == {r[c] : r \in BagToSet(df)}

\* .str.split(".").list.first()
RECURSIVE SplitFirst(_)
SplitFirst(s) ==
    IF s = <<>> \/ Head(s) = "." THEN <<>>
    ELSE <<Head(s)>> \o SplitFirst(Tail(s))

\* .str.replace("PF", "pfam"): the first match of the pattern, wherever it is
RECURSIVE ReplacePF(_)
ReplacePF(s) ==
    IF Len(s) < 2 THEN s
    ELSE IF s[1] = "P" /\ s[2] = "F"
         THEN <<"p", "f", "a", "m">> \o SubSeq(s, 3, Len(s))
         ELSE <<Head(s)>> \o ReplacePF(Tail(s))

FinalRow(r) ==
    [pfam_id_version |-> r.pfam_id,
     pfam_id |-> ReplacePF(SplitFirst(r.pfam_id)),
     feature_id |-> r.feature_id,
     pfam_start |-> r.pfam_start, pfam_end |-> r.pfam_end,
     evalue |-> r.evalue, domain_cov |-> r.domain_cov,
     row_index |-> r.row_index]

FinalTableOf(t, dropped) ==
    LET Kept(r) == r.row_index \notin dropped
        kept == SelectSeq(t, Kept)
    IN  [i \in DOMAIN kept |-> FinalRow(kept[i])]

(***************************************************************************)
(* hmmsearch.py main, as a process.                                        *)
(***************************************************************************)
NoFunction == <<>>
NoCall == [state |-> "idle"]

domtbl_output == "hmmsearch_domtblout.tsv"
processed_output == "hmmsearch_all_hits.csv"
drop_candidates_output == "hmmsearch_dropped_hits.csv"
stats_output == "hmmsearch_stats.tsv"
final_output == "hmmsearch_tbl.csv"

Init ==
    /\ pc = "start"
    /\ args \in ArgSets
    /\ hits = <<>>
    /\ groups = <<>>
    /\ dicts = NoFunction
    /\ drop = <<>>
    /\ drop_candidates = EmptyBag
    /\ drop_rows = {}
    /\ final_df = <<>>
    /\ stats = NoFunction
    /\ files = NoFunction
    /\ exc = "none"
    /\ marks = <<>>
    /\ runs = 0
    /\ prev_final = <<>>
    /\ ov = NoCall
    /\ rd = NoCall
    /\ cn = NoCall

\* lines 197-198
CheckArgs ==
    /\ pc = "start"
    /\ IF /\ 0 <= args.min_domain_coverage
          /\ args.min_domain_coverage <= 10
          /\ ~FracGT(Zero, args.min_overlap)
          /\ ~FracGT(args.min_overlap, <<1, 1>>)
       THEN pc' = "search" /\ exc' = exc
       ELSE pc' = "error" /\ exc' = "AssertionError"
    /\ UNCHANGED <<mainVars, ov, rd, cn>>

\* lines 208-213: run_hmmsearch writes the domtblout file while it searches;
\* DataFrame([]) has no column to sort by
RunHmmsearch ==
    /\ pc = "search"
    /\ \E n \in 0..MaxRows : \E c \in [1..n -> HitChoices] :
         /\ IsSortedTable(c)
         /\ files' = IF c = <<>>
                      THEN files @@ (domtbl_output :> <<>>)
                      ELSE files @@ (domtbl_output :> WithPfamIds(c))
                                 @@ (processed_output :> WithPfamIds(c))
         /\ hits' = WithPfamIds(c)
         /\ stats' = IF c = <<>> THEN stats
                      ELSE stats @@ ("num_rows_original_output" :> Len(c))
         /\ pc' = IF c = <<>> THEN "error" ELSE "filter"
         /\ exc' = IF c = <<>> THEN "ColumnNotFoundError" ELSE exc
    /\ UNCHANGED <<args, groups, dicts, drop, drop_candidates, drop_rows,
                   final_df, marks, runs, prev_final, ov, rd, cn>>

\* lines 222-228
Filter ==
    /\ pc = "filter"
    /\ LET Covered(r) == r.domain_cov >= args.min_domain_coverage
           filtered == SortByFeatureRowIndex(with_row_index(SelectSeq(hits, Covered)))
       IN  /\ hits' = filtered
           /\ groups' = partition_by(filtered)
           /\ stats' = stats @@ ("num_rows_after_dom_cov_filter" :> Len(filtered))
    /\ drop' = <<>>
    /\ marks' = <<>>
    /\ runs' = 1
    /\ pc' = "loop"
    /\ UNCHANGED <<args, dicts, drop_candidates, drop_rows, final_df, files,
                   exc, prev_final, ov, rd, cn>>

\* lines 230-247, one iteration of the outer for
ResolveGroup ==
    /\ pc = "loop"
    /\ groups # <<>>
    /\ LET hit == to_dicts(Head(groups))
           res == ComparePairs([hit |-> hit, drop |-> drop, marks |-> marks,
                                raised |-> "none"],
                               ComparedPairs(Len(hit)), args.min_overlap)
           byIndex == [k \in {res.hit[i].row_index : i \in DOMAIN res.hit} |->
                         LET i == CHOOSE i \in DOMAIN res.hit : res.hit[i].row_index = k
                         IN  res.hit[i]]
       IN  /\ dicts' = dicts @@ byIndex
           /\ drop' = res.drop
           /\ marks' = res.marks
           /\ IF res.raised = "none"
              THEN pc' = pc /\ exc' = exc /\ groups' = Tail(groups)
              ELSE pc' = "error" /\ exc' = res.raised /\ groups' = groups
    /\ UNCHANGED <<args, hits, drop_candidates, drop_rows, final_df, stats,
                   files, runs, prev_final, ov, rd, cn>>

\* lines 249-253: DataFrame([]) has no column row_index
DropCandidates ==
    /\ pc = "loop"
    /\ groups = <<>>
    /\ LET df == Unique(DataFrameOfDrop(drop, dicts))
       IN  /\ drop_candidates' = df
           /\ IF drop = <<>>
              THEN /\ pc' = "error"
                   /\ exc' = "ColumnNotFoundError"
                   /\ UNCHANGED <<drop_rows, stats, files>>
              ELSE /\ drop_rows' = BagColumn(df, "row_index")
                   /\ stats' = stats @@ ("num_rows_dropped" :>
                                            Cardinality(BagColumn(df, "row_index")))
                   /\ files' = files @@ (drop_candidates_output :> df)
                   /\ pc' = "final"
                   /\ exc' = exc
    /\ UNCHANGED <<args, hits, groups, dicts, drop, final_df, marks, runs,
                   prev_final, ov, rd, cn>>

\* lines 255-268
FinalTable ==
    /\ pc = "final"
    /\ LET f == FinalTableOf(hits, drop_rows)
       IN  /\ final_df' = f
           /\ files' = files @@ (final_output :> f)
           /\ stats' = stats @@ ("num_rows_final" :> Len(f))
    /\ pc' = "stats"
    /\ UNCHANGED <<args, hits, groups, dicts, drop, drop_candidates, drop_rows,
                   exc, marks, runs, prev_final, ov, rd, cn>>

\* lines 270-296
Stats ==
    /\ pc = "stats"
    /\ LET dropped_features == BagColumn(drop_candidates, "feature_id")
           all_viable_features == Column(hits, "feature_id") \ dropped_features
           final_features == Column(final_df, "feature_id")
           missing_features == all_viable_features \ final_features
           s == stats
                @@ ("original_features_w_pfams" :>
                        Cardinality(Column(hits, "feature_id")))
                @@ ("dropped_features_w_pfams" :> Cardinality(dropped_features))
                @@ ("final_features_w_pfams" :> Cardinality(final_features))
                @@ ("all_viable_features" :> Cardinality(all_viable_features))
                @@ ("missing_features_num" :> Cardinality(missing_features))
                @@ ("missing_features" :> missing_features)
       IN  /\ stats' = s
           /\ files' = files @@ (stats_output :> s)
    /\ pc' = "done"
    /\ UNCHANGED <<args, hits, groups, dicts, drop, drop_candidates, drop_rows,
                   final_df, exc, marks, runs, prev_final, ov, rd, cn>>

Next ==
    \/ CheckArgs
    \/ RunHmmsearch
    \/ Filter
    \/ ResolveGroup
    \/ DropCandidates
    \/ FinalTable
    \/ Stats

Spec == Init /\ [][Next]_vars

(***************************************************************************)
(* Re-application of the overlap resolution (lines 230-256) to the rows it *)
(* kept, with the same threshold.                                          *)
(***************************************************************************)
Reapply ==
    /\ pc = "done"
    /\ runs = 1
    /\ LET Kept(r) == r.row_index \notin drop_rows
           kept == SelectSeq(hits, Kept)
       IN  /\ hits' = kept
           /\ groups' = partition_by(kept)
    /\ prev_final' = final_df
    /\ drop' = <<>>
    /\ marks' = <<>>
    /\ dicts' = NoFunction
    /\ runs' = 2
    /\ pc' = "loop"
    /\ UNCHANGED <<args, drop_candidates, drop_rows, final_df, stats, files,
                   exc, ov, rd, cn>>

NextTwice == Next \/ Reapply

SpecTwice == Init /\ [][NextTwice]_vars

(***************************************************************************)
(* Properties of main.                                                     *)
(***************************************************************************)
Resolved == pc \in {"stats", "done"}
Deduplicated == pc \in {"final", "stats", "done"}

MinOverlap == args.min_overlap

OverlapOf(a, b) ==
    compute_overlap(<<a.pfam_start, a.pfam_end>>, <<b.pfam_start, b.pfam_end>>).value

\* two distinct rows of one feature whose overlap exceeds the threshold
Competes(a, b) ==
    /\ a.feature_id = b.feature_id
    /\ a.row_index # b.row_index
    /\ FracGT(OverlapOf(a, b), MinOverlap)

GroupOf(r) == {x \in Rows(hits) : x.feature_id = r.feature_id}
DropTable == files[drop_candidates_output]
DropRecordsOf(k) == {d \in BagToSet(DropTable) : d.row_index = k}
FinalIndices == Column(final_df, "row_index")
Marked(l, w) ==
    \E k \in DOMAIN marks : marks[k] = [loser |-> l.row_index, by |-> w.row_index]

\* w wins the comparison of the pair {w, l}
Beats(w, l) ==
    /\ Competes(w, l)
    /\ IF w.row_index < l.row_index
       THEN w.evalue < l.evalue
       ELSE w.evalue <= l.evalue

\* the winner of the last comparison that l loses, in the order of the loop
LastBeater(l) ==
    LET later == {w \in Rows(hits) : Beats(w, l) /\ w.row_index > l.row_index}
        earlier == {w \in Rows(hits) : Beats(w, l) /\ w.row_index < l.row_index}
        from == IF later # {} THEN later ELSE earlier
    IN  CHOOSE w \in from : \A x \in from : x.row_index <= w.row_index

\* C1, as claimed: of two rows of one feature that overlap above min_overlap
\* with different e-values, the one with the higher e-value is in the drop
\* table, not in the final table, and its reason names the pfam_id of the
\* other row of the pair.
C1_ReasonNamesEveryCompetitor ==
    Resolved =>
        \A a \in Rows(hits) : \A b \in Rows(hits) :
            (Competes(a, b) /\ a.evalue < b.evalue) =>
                /\ DropRecordsOf(b.row_index) # {}
                /\ b.row_index \notin FinalIndices
                /\ \A d \in DropRecordsOf(b.row_index) : d.reason = Reason(a.pfam_id)

\* C1, amended: the row with the higher e-value is in the drop table and not
\* in the final table; its one drop record names the pfam_id of the winner of
\* the last comparison it lost, which is the other row of the pair when it
\* lost no other comparison; of a feature with exactly two such hits only the
\* hit with the lower e-value is in the final table.
C1_HigherEvalueDropped ==
    Resolved =>
        \A a \in Rows(hits) : \A b \in Rows(hits) :
            (Competes(a, b) /\ a.evalue < b.evalue) =>
                /\ DropRecordsOf(b.row_index) # {}
                /\ b.row_index \notin FinalIndices
                /\ \A d \in DropRecordsOf(b.row_index) :
                       d.reason = Reason(LastBeater(b).pfam_id)
                /\ {w \in Rows(hits) : Beats(w, b)} = {a} =>
                       \A d \in DropRecordsOf(b.row_index) :
                           d.reason = Reason(a.pfam_id)
                /\ GroupOf(a) = {a, b} =>
                       {r.row_index : r \in {x \in Rows(final_df) :
                                               x.feature_id = a.feature_id}}
                           = {a.row_index}

C1_Witness ==
    /\ pc = "done"
    /\ \E a \in Rows(hits) : \E b \in Rows(hits) :
          /\ Competes(a, b)
          /\ a.evalue < b.evalue
          /\ GroupOf(a) = {a, b}
          /\ b.row_index \in drop_rows

\* C2, as claimed: of two rows of one feature that overlap above min_overlap
\* with equal e-values, the comparison marks the second-compared row (larger
\* row_index) and does not mark the first-compared row.
C2_TieMarksSecond ==
    Deduplicated =>
        \A a \in Rows(hits) : \A b \in Rows(hits) :
            (Competes(a, b) /\ a.row_index < b.row_index /\ a.evalue = b.evalue) =>
                /\ Marked(b, a)
                /\ ~Marked(a, b)

\* C2, amended: on equal e-values the comparison marks the first-compared row
\* (smaller row_index, the outer-loop row) with a reason naming the second,
\* and does not mark the second-compared row; the first-compared row is
\* dropped.
C2_TieMarksFirst ==
    Deduplicated =>
        \A a \in Rows(hits) : \A b \in Rows(hits) :
            (Competes(a, b) /\ a.row_index < b.row_index /\ a.evalue = b.evalue) =>
                /\ Marked(a, b)
                /\ ~Marked(b, a)
                /\ a.row_index \in drop_rows
                /\ GroupOf(a) = {a, b} => b.row_index \notin drop_rows

C2_Witness ==
    /\ pc = "done"
    /\ \E a \in Rows(hits) : \E b \in Rows(hits) :
          /\ Competes(a, b)
          /\ a.row_index < b.row_index
          /\ a.evalue = b.evalue
          /\ a.row_index \notin FinalIndices

\* C3: no two distinct rows of the final table that share a feature_id
\* overlap by more than min_overlap.
C3_FinalNonOverlapping ==
    Resolved =>
        \A i \in DOMAIN final_df : \A j \in DOMAIN final_df :
            (i # j /\ final_df[i].feature_id = final_df[j].feature_id) =>
                ~FracGT(OverlapOf(final_df[i], final_df[j]), MinOverlap)

C3_Witness ==
    /\ pc = "done"
    /\ Len(final_df) < Len(hits)
    /\ \E i \in DOMAIN final_df : \E j \in DOMAIN final_df :
          /\ i # j
          /\ final_df[i].feature_id = final_df[j].feature_id
          /\ FracEQ(OverlapOf(final_df[i], final_df[j]), MinOverlap)

\* C4, as claimed: a second overlap resolution of the rows kept by the first,
\* with the same min_overlap, marks no row and returns the same kept set.
C4_ReapplyReturnsSameKeptSet ==
    (runs = 2 /\ pc \in {"error", "stats", "done"}) =>
        /\ marks = <<>>
        /\ pc # "error"
        /\ final_df = prev_final

\* C5: the drop table holds exactly one record per dropped row_index, also
\* for a row marked by several competitors, and as many records as there are
\* distinct row indices subtracted from the kept set.
C5_OneDropRecordPerRow ==
    Deduplicated =>
        /\ DropTable = drop_candidates
        /\ drop_rows = {marks[k].loser : k \in DOMAIN marks}
        /\ \A k \in drop_rows : Cardinality(DropRecordsOf(k)) = 1
        /\ \A d \in BagToSet(DropTable) : CopiesIn(d, DropTable) = 1
        /\ Height(DropTable) = Cardinality(drop_rows)
        /\ stats["num_rows_dropped"] = Height(DropTable)
        /\ Resolved => Len(final_df) = Len(hits) - Height(DropTable)

C5_Witness ==
    /\ pc = "done"
    /\ \E i \in DOMAIN marks : \E j \in DOMAIN marks :
          /\ marks[i].loser = marks[j].loser
          /\ marks[i].by # marks[j].by

AllHits == files[processed_output]
SameHit(r, d) == r.pfam_id = d.pfam_id /\ r.feature_id = d.feature_id

\* C6, as claimed: every input row with domain_cov below min_domain_coverage
\* yields a drop record with a reason, every other row is retained, and
\* retained rows plus quality-filter drop records number the input rows.
C6_QualityFilterDropRecords ==
    Deduplicated =>
        LET failed == {r \in Rows(AllHits) : r.domain_cov < args.min_domain_coverage}
            records == {d \in BagToSet(DropTable) :
                           \E r \in failed : SameHit(r, d) /\ d.reason # NoReason}
        IN  /\ \A r \in failed : \E d \in records : SameHit(r, d)
            /\ \A r \in Rows(AllHits) \ failed : \E h \in Rows(hits) : SameHit(r, h)
            /\ Len(hits) + Cardinality(records) = Len(AllHits)

\* C7, as claimed: missing_features lists, and missing_features_num counts,
\* every feature_id of the hit table before filtering that is absent from the
\* final table.
C7_MissingFeaturesReported ==
    pc = "done" =>
        LET lost == Column(AllHits, "feature_id") \ Column(final_df, "feature_id")
        IN  /\ stats["missing_features"] = lost
            /\ stats["missing_features_num"] = Cardinality(lost)

(***************************************************************************)
(* compute_overlap called on its own.                                      *)
(***************************************************************************)
\* segments of the docstring and of the two literal cases
ExampleSegments == {<<10, 40>>, <<20, 30>>, <<0, 10>>}
TestSegments == ((0..MaxPos) \X (0..MaxPos)) \cup ExampleSegments

MainIdle ==
    /\ args = [min_domain_coverage |-> 4, min_overlap |-> <<1, 2>>]
    /\ hits = <<>>
    /\ groups = <<>>
    /\ dicts = NoFunction
    /\ drop = <<>>
    /\ drop_candidates = EmptyBag
    /\ drop_rows = {}
    /\ final_df = <<>>
    /\ stats = NoFunction
    /\ files = NoFunction
    /\ exc = "none"
    /\ marks = <<>>
    /\ runs = 0
    /\ prev_final = <<>>

InitOverlap ==
    /\ pc = "compute_overlap"
    /\ MainIdle
    /\ \E s1 \in TestSegments : \E s2 \in TestSegments :
          ov = [state |-> "called", segment1 |-> s1, segment2 |-> s2]
    /\ rd = NoCall
    /\ cn = NoCall

CallComputeOverlap ==
    /\ pc = "compute_overlap"
    /\ ov.state = "called"
    /\ LET r == compute_overlap(ov.segment1, ov.segment2)
       IN  ov' = [state |-> IF r.raised = "none" THEN "returned" ELSE "raised",
                  segment1 |-> ov.segment1, segment2 |-> ov.segment2,
                  raised |-> r.raised, value |-> r.value]
    /\ UNCHANGED <<pc, mainVars, exc, rd, cn>>

NextOverlap == CallComputeOverlap

SpecOverlap == InitOverlap /\ [][NextOverlap]_vars

OvDone == pc = "compute_overlap" /\ ov.state # "called"
Cells(seg) == seg[1]..(seg[2] - 1)
SegLen(seg) == Cardinality(Cells(seg))

C10_NoDivisionByZero ==
    OvDone =>
        /\ ov.state = "returned"
        /\ ov.raised = "none"
        /\ ov.value[2] # 0
        /\ (ov.segment1[1] = ov.segment1[2] \/ ov.segment2[1] = ov.segment2[2]) =>
               ov.value[1] = 0

\* a zero-length segment strictly inside the other one
C10_Witness ==
    /\ OvDone
    /\ ov.segment1[1] = ov.segment1[2]
    /\ ov.segment2[1] < ov.segment1[1]
    /\ ov.segment1[2] < ov.segment2[2]
    /\ ov.value[1] = 0

(***************************************************************************)
(* read_hmmer(path, program, format, add_header_as_index),                 *)
(* parse_hmmsearch_output.py 76-289.                                       *)
(*                                                                         *)
(* A line of the report is a comment (it starts with "#") or a data line   *)
(* of ntok tokens, all separated by runs of spaces or all by tabs.  The    *)
(* k-th token of a line is written k.  A string is the sequence of its     *)
(* tokens, a single space between two of them; a token that holds tabs is  *)
(* [tabbed |-> its parts].                                                 *)
(***************************************************************************)
TokCounts == {0, 1} \cup (17..MaxTok)
Separators == {" ", "\t"}
Formats == {"tblout", "domtblout", "pfamtblout"}

ReportLines ==
    {[kind |-> "comment"]}
    \cup {[kind |-> "data", ntok |-> n, sep |-> sp] : n \in TokCounts, sp \in Separators}

Reports == UNION {[1..n -> ReportLines] : n \in 0..MaxLines}

\* line 192
cut_index(format) == IF format = "tblout" THEN 18 ELSE 22

\* lines 206-285: the number of column names given to the frame
ColumnCount(format) ==
    IF format = "domtblout" THEN 6 + 3 + 6 + 2 + 2 + 2 + 2
    ELSE 4 + 3 + 3 + 8 + 1

\* line 200: list(filter(bool, line.strip().split(" "))): only the space splits
SplitLine(line) ==
    IF line.ntok = 0 THEN <<>>
    ELSE IF line.sep = " " THEN [k \in 1..line.ntok |-> k]
         ELSE << [tabbed |-> [k \in 1..line.ntok |-> k]] >>

CutRowSkipsOne(row, cut) ==
    SubSeq(row, 1, Min(Len(row), cut)) \o << SubSeq(row, cut + 2, Len(row)) >>

\* line 201: row[:cut_index] + [" ".join(row[cut_index:])]
CutRow(row, cut) ==
    SubSeq(row, 1, Min(Len(row), cut)) \o << SubSeq(row, cut + 1, Len(row)) >>

\* pd.DataFrame(data): as wide as the longest row, shorter rows filled with None
Width(data) ==
    IF data = <<>> THEN 0
    ELSE CHOOSE w \in {Len(data[i]) : i \in DOMAIN data} :
            \A i \in DOMAIN data : Len(data[i]) <= w

DataFrame(data) ==
    [columns |-> "range",
     width |-> Width(data),
     rows |-> [i \in DOMAIN data |->
                 [k \in 1..Width(data) |->
                     IF k <= Len(data[i]) THEN data[i][k] ELSE "None"]]]

InitParse ==
    /\ pc = "read_hmmer"
    /\ MainIdle
    /\ ov = NoCall
    /\ cn = NoCall
    /\ \E lines \in Reports : \E format \in Formats : \E hdr \in BOOLEAN :
          rd = [state |-> "called", lines |-> lines, format |-> format,
                add_header_as_index |-> hdr, pos |-> 1, data |-> <<>>,
                header |-> <<>>, df |-> DataFrame(<<>>), raised |-> "none"]

\* lines 188-189
CheckFormat ==
    /\ pc = "read_hmmer"
    /\ rd.state = "called"
    /\ rd' = IF rd.format \in {"tblout", "domtblout"}
             THEN [rd EXCEPT !.state = "reading"]
             ELSE [rd EXCEPT !.state = "raised", !.raised = "AssertionError"]
    /\ UNCHANGED <<pc, mainVars, exc, ov, cn>>

\* lines 196-202, one iteration
ReadLine ==
    /\ pc = "read_hmmer"
    /\ rd.state = "reading"
    /\ rd.pos <= Len(rd.lines)
    /\ LET line == rd.lines[rd.pos]
       IN  rd' = IF line.kind = "comment"
                 THEN [rd EXCEPT !.header = Append(@, rd.pos), !.pos = @ + 1]
                 ELSE [rd EXCEPT
                          !.data = Append(@, CutRow(SplitLine(line),
                                                    cut_index(rd.format))),
                          !.pos = @ + 1]
    /\ UNCHANGED <<pc, mainVars, exc, ov, cn>>

\* lines 204-286: df.columns = ... needs as many names as the frame has columns
BuildFrame ==
    /\ pc = "read_hmmer"
    /\ rd.state = "reading"
    /\ rd.pos > Len(rd.lines)
    /\ LET df == DataFrame(rd.data)
           empty == rd.data = <<>> \/ df.width = 0
       IN  rd' = IF empty
                 THEN [rd EXCEPT !.state = "framed", !.df = df]
                 ELSE IF df.width = ColumnCount(rd.format)
                      THEN [rd EXCEPT !.state = "framed",
                                      !.df = [df EXCEPT !.columns = rd.format]]
                      ELSE [rd EXCEPT !.state = "raised", !.df = df,
                                      !.raised = "ValueError"]
    /\ UNCHANGED <<pc, mainVars, exc, ov, cn>>

\* lines 287-289: np.asarray(header)[[5, 9, 11]]
ReturnFrame ==
    /\ pc = "read_hmmer"
    /\ rd.state = "framed"
    /\ rd' = IF rd.add_header_as_index /\ Len(rd.header) < 12
             THEN [rd EXCEPT !.state = "raised", !.raised = "IndexError"]
             ELSE [rd EXCEPT !.state = "returned"]
    /\ UNCHANGED <<pc, mainVars, exc, ov, cn>>

NextParse == CheckFormat \/ ReadLine \/ BuildFrame \/ ReturnFrame

SpecParse == InitParse /\ [][NextParse]_vars

\* the whitespace-delimited tokens of a data line
TokenCount(line) == line.ntok
ShortLine(line, format) ==
    line.kind = "data" /\ TokenCount(line) < cut_index(format)

\* C8, as claimed: read_hmmer ends with an error whenever a non-comment line
\* of the report has fewer whitespace-delimited tokens than the fixed-field
\* count of the layout, also when other lines are well-formed.
C8_ShortLineRaises ==
    (pc = "read_hmmer" /\ rd.state \in {"returned", "raised"}) =>
        ((\E k \in DOMAIN rd.lines : ShortLine(rd.lines[k], rd.format))
            => rd.state = "raised")

(***************************************************************************)
(* The canonical identifier of one kept row, hmmsearch.py 257-264, on its  *)
(* own: the identifier is any string over a few characters.                *)
(***************************************************************************)
IdChars == {"P", "F", "X", ".", "1"}
Identifiers == UNION {[1..n -> IdChars] : n \in 1..MaxIdLen}

InitCanonical ==
    /\ pc = "canonical"
    /\ MainIdle
    /\ ov = NoCall
    /\ rd = NoCall
    /\ \E id \in Identifiers :
          cn = [state |-> "kept",
                row |-> [pfam_id |-> id, feature_id |-> "f1", pfam_start |-> 1,
                         pfam_end |-> 3, evalue |-> 1, domain_cov |-> 4,
                         row_index |-> 0]]

Canonicalise ==
    /\ pc = "canonical"
    /\ cn.state = "kept"
    /\ cn' = [state |-> "final", row |-> cn.row, final |-> FinalRow(cn.row)]
    /\ UNCHANGED <<pc, mainVars, exc, ov, rd>>

NextCanonical == Canonicalise

SpecCanonical == InitCanonical /\ [][NextCanonical]_vars

\* the identifier before its first "."
Truncated(id) ==
    LET dots == {k \in DOMAIN id : id[k] = "."}
    IN  IF dots = {} THEN id
        ELSE SubSeq(id, 1, (CHOOSE k \in dots : \A d \in dots : k <= d) - 1)

HasPrefixPF(t) == Len(t) >= 2 /\ t[1] = "P" /\ t[2] = "F"

\* C11, as claimed: pfam_id_version is the original identifier and pfam_id is
\* the identifier truncated before its first ".", with a leading "PF"
\* rewritten to "pfam" and nothing else changed; an identifier without the
\* prefix "PF" is only truncated.
C11_CanonicalPrefixOnly ==
    (pc = "canonical" /\ cn.state = "final") =>
        LET t == Truncated(cn.row.pfam_id)
        IN  /\ cn.final.pfam_id_version = cn.row.pfam_id
            /\ cn.final.pfam_id =
                  IF HasPrefixPF(t)
                  THEN <<"p", "f", "a", "m">> \o SubSeq(t, 3, Len(t))
                  ELSE t

(***************************************************************************)
(* Round trip of read_hmmer.                                               *)
(***************************************************************************)
IsData(line) == line.kind = "data"
DataLines(lines) == SelectSeq(lines, IsData)
CommentPositions(lines) == {k \in DOMAIN lines : lines[k].kind = "comment"}

\* tokens of a data line when only the space separates them
SpaceTokenCount(line) ==
    IF line.sep = " " THEN line.ntok ELSE Min(line.ntok, 1)

\* the tokens of the line beyond the fixed fields, a space between them
Description(line, cut) == [k \in 1..(line.ntok - cut) |-> cut + k]

DefaultCall ==
    /\ pc = "read_hmmer"
    /\ rd.state \in {"returned", "raised"}
    /\ rd.format \in {"tblout", "domtblout"}
    /\ ~rd.add_header_as_index

RoundTrip ==
    LET cut == cut_index(rd.format)
        dl == DataLines(rd.lines)
    IN  /\ rd.state = "returned"
        /\ Len(rd.df.rows) = Len(dl)
        /\ \A i \in DOMAIN dl :
              /\ Len(rd.df.rows[i]) = cut + 1
              /\ \A k \in 1..cut : rd.df.rows[i][k] = k
              /\ rd.df.rows[i][cut + 1] = Description(dl[i], cut)
        /\ {rd.header[k] : k \in DOMAIN rd.header} = CommentPositions(rd.lines)
        /\ Len(rd.header) + Len(rd.df.rows) = Len(rd.lines)

OutputFiles ==
    {processed_output, drop_candidates_output, final_output, stats_output}
Written == DOMAIN files \cap OutputFiles
AllComputed ==
    /\ pc \in {"stats", "done"}
    /\ {"num_rows_dropped", "num_rows_final"} \subseteq DOMAIN stats

\* C13, as claimed: no output file (full hit table, drop table, final table,
\* statistics) is written before the kept set, the drop set and the
\* statistics have all been computed, so a run that aborted has written no
\* output file.
C13_NoWriteBeforeAllComputed ==
    /\ Written # {} => AllComputed
    /\ pc = "error" => Written = {}

(***************************************************************************)
(* The full hit table, written at line 211.                                *)
(***************************************************************************)
Filtered == pc \in {"loop", "final", "stats", "done"}

\* C14, as claimed: the full hit table holds exactly the rows that survive
\* the domain-coverage filter, one row per surviving hit, each with the
\* row_index that the drop and final tables use as join key.
C14_FullTableIsFilteredWithRowIndex ==
    (Filtered /\ processed_output \in DOMAIN files) =>
        /\ Len(AllHits) = Len(hits)
        /\ \A i \in DOMAIN AllHits :
              /\ AllHits[i].domain_cov >= args.min_domain_coverage
              /\ "row_index" \in DOMAIN AllHits[i]
              /\ \E r \in Rows(hits) :
                    /\ SameHit(r, AllHits[i])
                    /\ r.row_index = AllHits[i].row_index

(***************************************************************************)
(* Independence of the feature groups in the loop of lines 230-247.        *)
(***************************************************************************)
\* the for loop over the groups has ended (lines 249-250 may have raised)
LoopDone == runs = 1 /\ groups = <<>>

RowsOfFeature(t, f) == LET InF(r) == r.feature_id = f IN SelectSeq(t, InF)

\* the loop on a table that holds the rows of g and nothing else
AloneRun(g) ==
    ComparePairs([hit |-> to_dicts(with_row_index(g)), drop |-> <<>>,
                  marks |-> <<>>, raised |-> "none"],
                 ComparedPairs(Len(g)), args.min_overlap)

\* positions in g of the rows the list dropList refers to
DroppedPositions(g, dropList) ==
    {i \in DOMAIN g : \E k \in DOMAIN dropList : dropList[k] = g[i].row_index}

Reverse(s) == [i \in DOMAIN s |-> s[Len(s) + 1 - i]]

\* the loop over the groups gs, taken in the order of gs
RECURSIVE ResolveInOrder(_, _)
ResolveInOrder(gs, st) ==
    IF gs = <<>> THEN st
    ELSE LET res == ComparePairs([hit |-> to_dicts(Head(gs)), drop |-> st.drop,
                                  marks |-> st.marks, raised |-> "none"],
                                 ComparedPairs(Len(Head(gs))), args.min_overlap)
             reasons == [k \in {res.hit[i].row_index : i \in DOMAIN res.hit} |->
                           LET i == CHOOSE i \in DOMAIN res.hit :
                                        res.hit[i].row_index = k
                           IN  res.hit[i].reason]
         IN  ResolveInOrder(Tail(gs), [drop |-> res.drop, marks |-> res.marks,
                                       reasons |-> st.reasons @@ reasons])

Ended == runs = 1 /\ pc \in {"done", "error"}

\* the row of feature f minimal by e-value, ties towards the larger row_index
BestRow(f) ==
    CHOOSE b \in Rows(hits) :
        /\ b.feature_id = f
        /\ \A x \in Rows(hits) :
              x.feature_id = f =>
                  \/ b.evalue < x.evalue
                  \/ b.evalue = x.evalue /\ b.row_index >= x.row_index

\* C16, as claimed: for every feature with a row after the domain-coverage
\* filter, the row minimal by e-value (ties towards the larger row_index) is
\* never marked and a row of the feature is in the final table, so the
\* feature ids of the final table are those of the filtered table.
C16_EveryFeatureInFinalTable ==
    /\ LoopDone =>
          \A f \in Column(hits, "feature_id") :
              \A k \in DOMAIN drop : drop[k] # BestRow(f).row_index
    /\ Ended =>
          /\ \A f \in Column(hits, "feature_id") :
                \E r \in Rows(final_df) : r.feature_id = f
          /\ Column(final_df, "feature_id") = Column(hits, "feature_id")

\* the part of C16 that does not wait for the final table
BestRowNeverMarked ==
    /\ LoopDone =>
          \A f \in Column(hits, "feature_id") :
              \A k \in DOMAIN drop : drop[k] # BestRow(f).row_index
    /\ Resolved => Column(final_df, "feature_id") = Column(hits, "feature_id")

(***************************************************************************)
(* A table without competing rows.                                         *)
(***************************************************************************)
\* C17, as claimed: when the loop has appended nothing to drop, main still
\* completes, reports num_rows_dropped = 0, writes an empty drop table, and
\* the final table holds exactly the rows that passed the coverage filter.
C17_EmptyDropCompletes ==
    (LoopDone /\ drop = <<>>) =>
        /\ pc # "error"
        /\ Deduplicated =>
              /\ stats["num_rows_dropped"] = 0
              /\ DropTable = EmptyBag
        /\ Resolved => FinalIndices = Column(hits, "row_index")

====
